---- MODULE Spec2Model ----
(***************************************************************************)
(* A model of the interactive shell of src/src/main.rs: the tokenizer, the *)
(* command parser, the builtin dispatcher, the pipeline executor, the      *)
(* completion engine and the control loop of main.                         *)
(*                                                                         *)
(* Text is modelled by TLA+ strings; Len, \o and SubSeq work on them the   *)
(* way they work on the bytes of a Rust String (the model uses ASCII only).*)
(*                                                                         *)
(* Five specifications share the module:                                   *)
(*   Spec      the control loop of main with the pipeline executor,        *)
(*   SpecTok   tokenize, split_pipeline and parse_command applied to every *)
(*             line over a bounded alphabet,                               *)
(*   SpecParse parse_command applied to every bounded stage token list,    *)
(*   SpecComp  the completion requests of one interactive session,         *)
(*   SpecHist  the history builtin applied to every bounded log.           *)
(***************************************************************************)
EXTENDS Integers, Sequences, FiniteSets, TLC

VARIABLES
    \* ---- tokenizer / parser pipeline on one line (SpecTok)
    tkLine,         \* the raw line handed to tokenize
    tkPc,           \* "line" | "tokens" | "chunks" | "stages" | "syntax"
    tkTokens,       \* result of tokenize
    tkChunks,       \* result of split_pipeline (an Option)
    tkStages,       \* the stages parsed by main's loop over the chunks
    \* ---- completion engine (SpecComp)
    last_prefix,    \* CompletionState.last_prefix (an Option)
    armed_for_list, \* CompletionState.armed_for_list
    compLog,        \* the last requests and their results, newest last
    \* ---- the history builtin applied to one log (SpecHist)
    hsHistory,      \* the accepted-line log handed to builtin_bytes
    hsArgs,         \* the arguments of `history`
    hsPc,           \* "call" | "done"
    hsOut,          \* the stdout bytes builtin_bytes returned
    \* ---- control loop and pipeline executor (Spec)
    pc,             \* where main is: "prompt" | "setup" | "drop" | "join" | "wait" | "exited"
    cwd,            \* the process working directory
    history_vec,    \* main's history_vec
    fs,             \* regular files: path -> content
    out,            \* bytes written to the terminal's stdout since the last accepted line
    err,            \* bytes written to the terminal's stderr since the last accepted line
    stages,         \* the stages of the line being executed
    si,             \* execute_pipeline: the loop index (1-based) / the join and wait cursor
    pipesOpen,      \* whether the parent still holds the descriptors of `pipes`
    pipes,          \* the bytes in flight in each inter-stage pipe
    tasks,          \* per started stage: the builtin thread or the child process
    detached,       \* builtin threads whose JoinHandle was dropped unjoined, still to run
    orphans         \* children whose Child was dropped without wait: <<line number, stage>>

tokVars  == <<tkLine, tkPc, tkTokens, tkChunks, tkStages>>
compVars == <<last_prefix, armed_for_list, compLog>>
histVars == <<hsHistory, hsArgs, hsPc, hsOut>>
execVars == <<stages, si, pipesOpen, pipes, tasks, detached, orphans>>
sessVars == <<pc, cwd, history_vec, fs, out, err>>
vars     == <<tokVars, compVars, histVars, sessVars, execVars>>

(***************************************************************************)
(* Bounds of the model.                                                    *)
(***************************************************************************)
MaxLen == 3     \* longest raw line (and quoted body) enumerated for the tokenizer
MaxHist == 3    \* longest accepted-line log handed to the history builtin
MaxLines == 2   \* accepted lines per session
MaxTokens == 4  \* longest token list of one stage handed to parse_command
PipeCap == 4    \* bytes a pipe buffers before a write blocks

(***************************************************************************)
(* Text helpers.                                                           *)
(***************************************************************************)
Ch(s, i) == SubSeq(s, i, i)

None == [some |-> FALSE, val |-> ""]
Some(v) == [some |-> TRUE, val |-> v]

\* char::is_whitespace on the characters the model uses
is_whitespace(ch) == ch \in {" ", "\t"}

(***************************************************************************)
(* tokenize                                                                *)
(***************************************************************************)
\* A TLA+ string cannot hold the backtick character: the model writes it "^",
\* a character that stands for nothing else in the model.
Backtick == "^"

dq_escapable == {"\\", "\"", "$", Backtick}

TokStart ==
    [args |-> <<>>, current |-> "", in_single |-> FALSE, in_double |-> FALSE,
     backslash |-> FALSE]

\* TokStep with every backslash inside double quotes taken as an escape
TokStep_dq_any_escape(st, ch) ==
    IF st.backslash
    THEN [st EXCEPT
            !.current =
                IF st.in_single THEN st.current \o "\\" \o ch
                ELSE st.current \o ch,
            !.backslash = FALSE]
    ELSE IF ch = "\\" /\ ~st.in_single
    THEN [st EXCEPT !.backslash = TRUE]
    ELSE IF ch = "'" /\ ~st.in_double
    THEN [st EXCEPT !.in_single = ~st.in_single]
    ELSE IF ch = "\"" /\ ~st.in_single
    THEN [st EXCEPT !.in_double = ~st.in_double]
    ELSE IF ~st.in_single /\ ~st.in_double /\ ch = "|"
    THEN [st EXCEPT
            !.args = (IF st.current # "" THEN Append(st.args, st.current) ELSE st.args)
                        \o <<"|">>,
            !.current = ""]
    ELSE IF ~st.in_single /\ ~st.in_double /\ is_whitespace(ch)
    THEN [st EXCEPT
            !.args = IF st.current # "" THEN Append(st.args, st.current) ELSE st.args,
            !.current = ""]
    ELSE [st EXCEPT !.current = st.current \o ch]

\* TokStep with the backslash recognised inside single quotes as well
TokStep_sq_backslash(st, ch) ==
    IF st.backslash
    THEN [st EXCEPT
            !.current =
                IF st.in_single THEN st.current \o "\\" \o ch
                ELSE IF st.in_double
                     THEN (IF ch \in dq_escapable THEN st.current \o ch
                           ELSE st.current \o "\\" \o ch)
                     ELSE st.current \o ch,
            !.backslash = FALSE]
    ELSE IF ch = "\\"
    THEN [st EXCEPT !.backslash = TRUE]
    ELSE IF ch = "'" /\ ~st.in_double
    THEN [st EXCEPT !.in_single = ~st.in_single]
    ELSE IF ch = "\"" /\ ~st.in_single
    THEN [st EXCEPT !.in_double = ~st.in_double]
    ELSE IF ~st.in_single /\ ~st.in_double /\ ch = "|"
    THEN [st EXCEPT
            !.args = (IF st.current # "" THEN Append(st.args, st.current) ELSE st.args)
                        \o <<"|">>,
            !.current = ""]
    ELSE IF ~st.in_single /\ ~st.in_double /\ is_whitespace(ch)
    THEN [st EXCEPT
            !.args = IF st.current # "" THEN Append(st.args, st.current) ELSE st.args,
            !.current = ""]
    ELSE [st EXCEPT !.current = st.current \o ch]

\* one iteration of `for ch in line.chars()`
TokStep(st, ch) ==
    IF st.backslash
    THEN [st EXCEPT
            !.current =
                IF st.in_single THEN st.current \o "\\" \o ch
                ELSE IF st.in_double
                     THEN (IF ch \in dq_escapable THEN st.current \o ch
                           ELSE st.current \o "\\" \o ch)
                     ELSE st.current \o ch,
            !.backslash = FALSE]
    ELSE IF ch = "\\" /\ ~st.in_single
    THEN [st EXCEPT !.backslash = TRUE]
    ELSE IF ch = "'" /\ ~st.in_double
    THEN [st EXCEPT !.in_single = ~st.in_single]
    ELSE IF ch = "\"" /\ ~st.in_single
    THEN [st EXCEPT !.in_double = ~st.in_double]
    ELSE IF ~st.in_single /\ ~st.in_double /\ ch = "|"
    THEN [st EXCEPT
            !.args = (IF st.current # "" THEN Append(st.args, st.current) ELSE st.args)
                        \o <<"|">>,
            !.current = ""]
    ELSE IF ~st.in_single /\ ~st.in_double /\ is_whitespace(ch)
    THEN [st EXCEPT
            !.args = IF st.current # "" THEN Append(st.args, st.current) ELSE st.args,
            !.current = ""]
    ELSE [st EXCEPT !.current = st.current \o ch]

RECURSIVE TokScan(_, _, _)
TokScan(line, i, st) ==
    IF i > Len(line) THEN st ELSE TokScan(line, i + 1, TokStep(st, Ch(line, i)))

tokenize(line) ==
    LET st  == TokScan(line, 1, TokStart)
        cur == IF st.backslash THEN st.current \o "\\" ELSE st.current
    IN  IF cur # "" THEN Append(st.args, cur) ELSE st.args

(***************************************************************************)
(* Redirect targets, ParsedCommand, parse_command, split_pipeline          *)
(***************************************************************************)
Inherit == [kind |-> "Inherit", path |-> ""]
Truncate(p) == [kind |-> "Truncate", path |-> p]
AppendTo(p) == [kind |-> "Append", path |-> p]

SyntaxNewline(cmd) == cmd \o ": syntax error near unexpected token ^newline^"
SyntaxPipe == "syntax error near unexpected token ^|^"

\* the loop of parse_command stepping over the operator only, so that the
\* path is read again as an argument
RECURSIVE ParseLoop_keeps_path(_, _, _)
ParseLoop_keeps_path(tokens, i, acc) ==
    IF i > Len(tokens) THEN [some |-> TRUE, val |-> acc, err |-> ""]
    ELSE LET t == tokens[i] IN
         IF t \in {">", "1>", ">>", "1>>", "2>", "2>>"}
         THEN IF i + 1 > Len(tokens)
              THEN [some |-> FALSE, val |-> acc, err |-> SyntaxNewline(acc.cmd)]
              ELSE ParseLoop_keeps_path(tokens, i + 1,
                     IF t \in {">", "1>"} THEN [acc EXCEPT !.stdout = Truncate(tokens[i + 1])]
                     ELSE IF t \in {">>", "1>>"} THEN [acc EXCEPT !.stdout = AppendTo(tokens[i + 1])]
                     ELSE IF t = "2>" THEN [acc EXCEPT !.stderr = Truncate(tokens[i + 1])]
                     ELSE [acc EXCEPT !.stderr = AppendTo(tokens[i + 1])])
         ELSE ParseLoop_keeps_path(tokens, i + 1, [acc EXCEPT !.args = Append(acc.args, t)])

\* the `while i < tokens.len()` loop of parse_command; i is 1-based here
RECURSIVE ParseLoop(_, _, _)
ParseLoop(tokens, i, acc) ==
    IF i > Len(tokens) THEN [some |-> TRUE, val |-> acc, err |-> ""]
    ELSE LET t == tokens[i] IN
         IF t \in {">", "1>", ">>", "1>>", "2>", "2>>"}
         THEN IF i + 1 > Len(tokens)
              THEN [some |-> FALSE, val |-> acc, err |-> SyntaxNewline(acc.cmd)]
              ELSE ParseLoop(tokens, i + 2,
                     IF t \in {">", "1>"} THEN [acc EXCEPT !.stdout = Truncate(tokens[i + 1])]
                     ELSE IF t \in {">>", "1>>"} THEN [acc EXCEPT !.stdout = AppendTo(tokens[i + 1])]
                     ELSE IF t = "2>" THEN [acc EXCEPT !.stderr = Truncate(tokens[i + 1])]
                     ELSE [acc EXCEPT !.stderr = AppendTo(tokens[i + 1])])
         ELSE ParseLoop(tokens, i + 1, [acc EXCEPT !.args = Append(acc.args, t)])

NoCommand == [cmd |-> "", args |-> <<>>, stdout |-> Inherit, stderr |-> Inherit]

\* parse_command that drops an operator with no following token
parse_command_lenient(tokens) ==
    IF tokens = <<>> THEN [some |-> FALSE, val |-> NoCommand, err |-> ""]
    ELSE [ParseLoop(tokens, 2, [NoCommand EXCEPT !.cmd = tokens[1]])
            EXCEPT !.some = TRUE, !.err = ""]

\* Option<ParsedCommand>, with the message eprintln! wrote when it is None
parse_command(tokens) ==
    IF tokens = <<>> THEN [some |-> FALSE, val |-> NoCommand, err |-> ""]
    ELSE ParseLoop(tokens, 2, [NoCommand EXCEPT !.cmd = tokens[1]])

\* the loop of split_pipeline passing over an empty stage instead of
\* rejecting it
RECURSIVE SplitLoop_skips_empty(_, _, _, _)
SplitLoop_skips_empty(tokens, i, outv, cur) ==
    IF i > Len(tokens)
    THEN [some |-> TRUE, val |-> IF cur = <<>> THEN outv ELSE Append(outv, cur), err |-> ""]
    ELSE IF tokens[i] = "|"
         THEN SplitLoop_skips_empty(tokens, i + 1,
                                    IF cur = <<>> THEN outv ELSE Append(outv, cur), <<>>)
         ELSE SplitLoop_skips_empty(tokens, i + 1, outv, Append(cur, tokens[i]))

\* the `for t in tokens` loop of split_pipeline
RECURSIVE SplitLoop(_, _, _, _)
SplitLoop(tokens, i, outv, cur) ==
    IF i > Len(tokens)
    THEN IF cur = <<>>
         THEN [some |-> FALSE, val |-> <<>>, err |-> SyntaxPipe]
         ELSE [some |-> TRUE, val |-> Append(outv, cur), err |-> ""]
    ELSE IF tokens[i] = "|"
         THEN IF cur = <<>>
              THEN [some |-> FALSE, val |-> <<>>, err |-> SyntaxPipe]
              ELSE SplitLoop(tokens, i + 1, Append(outv, cur), <<>>)
         ELSE SplitLoop(tokens, i + 1, outv, Append(cur, tokens[i]))

\* Option<Vec<Vec<String>>>, with the message eprintln! wrote when it is None
split_pipeline(tokens) == SplitLoop(tokens, 1, <<>>, <<>>)

\* main, lines 817-827: parse every chunk; the first failure clears the stages
RECURSIVE ParseChunks(_, _, _)
ParseChunks(chunks, i, acc) ==
    IF i > Len(chunks) THEN [stages |-> acc, err |-> <<>>]
    ELSE LET pcmd == parse_command(chunks[i]) IN
         IF pcmd.some THEN ParseChunks(chunks, i + 1, Append(acc, pcmd.val))
         ELSE [stages |-> <<>>, err |-> IF pcmd.err = "" THEN <<>> ELSE <<pcmd.err>>]

\* main, lines 814-827: the stages of a line (empty when the line is dropped)
\* and what was reported on the real error stream while parsing it
ParseLine(line) ==
    LET chunks == split_pipeline(tokenize(line)) IN
    IF ~chunks.some THEN [stages |-> <<>>, err |-> <<chunks.err>>]
    ELSE ParseChunks(chunks.val, 1, <<>>)

(***************************************************************************)
(* SpecTok: tokenize, split_pipeline and main's parse loop applied to the  *)
(* lines over a bounded alphabet, to those lines wrapped in quotes after a *)
(* command name, and to the lines the documentation gives as examples.     *)
(***************************************************************************)
TokAlphabet == {"a", " ", "|", "'", "\"", "\\", "$"}

RECURSIVE Strs(_)
Strs(n) == IF n = 0 THEN {""} ELSE {s \o c : s \in Strs(n - 1), c \in TokAlphabet}

AllStrs == UNION {Strs(n) : n \in 0..MaxLen}

TokExamples ==
    {"\"a\\$b\\\"c\\d\"", "echo 'a $b \\c'", "echo '|'", "echo \"|\" x", "echo \\|",
     "echo hi >", "cmd1 | | cmd2", "echo a 2>> f b > g", "\"\\^\""}

TokInputs ==
    AllStrs
    \cup {c \o q \o s \o q : c \in {"", "echo "}, q \in {"'", "\""}, s \in AllStrs}
    \cup TokExamples

TokInit ==
    /\ tkLine \in TokInputs
    /\ tkPc = "line"
    /\ tkTokens = <<>>
    /\ tkChunks = [some |-> FALSE, val |-> <<>>, err |-> ""]
    /\ tkStages = <<>>

TokIdle ==
    /\ tkLine = ""
    /\ tkPc = "idle"
    /\ tkTokens = <<>>
    /\ tkChunks = [some |-> FALSE, val |-> <<>>, err |-> ""]
    /\ tkStages = <<>>

\* main, line 814
TokTokenize ==
    /\ tkPc = "line"
    /\ tkTokens' = tokenize(tkLine)
    /\ tkPc' = "tokens"
    /\ UNCHANGED <<tkLine, tkChunks, tkStages>>

\* main, line 815
TokSplit ==
    /\ tkPc = "tokens"
    /\ tkChunks' = split_pipeline(tkTokens)
    /\ tkPc' = IF tkChunks'.some THEN "chunks" ELSE "syntax"
    /\ UNCHANGED <<tkLine, tkTokens, tkStages>>

\* main, lines 817-827
TokParse ==
    /\ tkPc = "chunks"
    /\ tkStages' = ParseChunks(tkChunks.val, 1, <<>>).stages
    /\ tkPc' = IF tkStages' = <<>> THEN "syntax" ELSE "stages"
    /\ UNCHANGED <<tkLine, tkTokens, tkChunks>>

(***************************************************************************)
(* SpecParse: parse_command applied to every stage of at most MaxTokens    *)
(* tokens over words and redirection operators.                            *)
(***************************************************************************)
StageTokens == {"a", "b", ">", "1>", ">>", "1>>", "2>", "2>>"}

RECURSIVE TokenLists(_)
TokenLists(n) ==
    IF n = 0 THEN {<<>>} ELSE {Append(l, t) : l \in TokenLists(n - 1), t \in StageTokens}

\* the state main is in at line 817 when the line has this one stage
ParseInit ==
    /\ tkLine = ""
    /\ tkPc = "chunks"
    /\ tkTokens \in UNION {TokenLists(n) : n \in 1..MaxTokens}
    /\ tkChunks = [some |-> TRUE, val |-> <<tkTokens>>, err |-> ""]
    /\ tkStages = <<>>

(***************************************************************************)
(* Completion engine                                                       *)
(***************************************************************************)
\* The executable files of the directories of PATH, in directory order, each
\* directory in the order read_dir lists it (the environment of the session).
PathDirs == << <<"yes", "true", "pwdx", "head", "env", "echo">>, <<"head", "bad">> >>

Letters == "abcdefghijklmnopqrstuvwxyz"
Ord(c) == CHOOSE i \in 1..Len(Letters) : Ch(Letters, i) = c

\* the order of String (byte-wise lexicographic), strict
RECURSIVE StrLess(_, _)
StrLess(a, b) ==
    IF b = "" THEN FALSE
    ELSE IF a = "" THEN TRUE
    ELSE IF Ch(a, 1) = Ch(b, 1) THEN StrLess(SubSeq(a, 2, Len(a)), SubSeq(b, 2, Len(b)))
    ELSE Ord(Ch(a, 1)) < Ord(Ch(b, 1))

\* Vec::sort
sort(v) == SortSeq(v, StrLess)

\* Vec::dedup: drops every element equal to the one before it
RECURSIVE dedup(_)
dedup(v) ==
    IF Len(v) <= 1 THEN v
    ELSE LET r == dedup(SubSeq(v, 1, Len(v) - 1)) IN
         IF v[Len(v)] = r[Len(r)] THEN r ELSE Append(r, v[Len(v)])

starts_with(name, prefix) ==
    Len(prefix) <= Len(name) /\ SubSeq(name, 1, Len(prefix)) = prefix

Filter(v, prefix) == SelectSeq(v, LAMBDA n : starts_with(n, prefix))

RECURSIVE Flatten(_)
Flatten(vv) == IF vv = <<>> THEN <<>> ELSE Head(vv) \o Flatten(Tail(vv))

executables_in_path_starting_with(prefix) ==
    dedup(sort(Filter(Flatten(PathDirs), prefix)))

\* the `while` loop of longest_common_prefix: how many leading bytes agree, at most end
RECURSIVE CommonLen(_, _, _, _)
CommonLen(first, b, i, end) ==
    IF i < end /\ i < Len(b) /\ Ch(first, i + 1) = Ch(b, i + 1)
    THEN CommonLen(first, b, i + 1, end)
    ELSE i

\* the `for s in &strs[1..]` loop of longest_common_prefix
RECURSIVE LcpLoop(_, _, _)
LcpLoop(strs, k, end) ==
    IF k > Len(strs) \/ end = 0 THEN end
    ELSE LET i == CommonLen(strs[1], strs[k], 0, end) IN
         LcpLoop(strs, k + 1, IF i < end THEN i ELSE end)

longest_common_prefix(strs) ==
    IF strs = <<>> THEN ""
    ELSE IF Len(strs) = 1 THEN strs[1]
    ELSE SubSeq(strs[1], 1, LcpLoop(strs, 2, Len(strs[1])))

CompletionBuiltins == <<"echo", "exit", "type", "pwd", "cd", "history">>

\* complete, lines 151-163
Matches(prefix) ==
    dedup(sort(Filter(CompletionBuiltins, prefix)
               \o executables_in_path_starting_with(prefix)))

\* complete, lines 137-140: one past the last whitespace of line[..pos], else 0
RECURSIVE WordStart(_, _)
WordStart(line, pos) ==
    IF pos = 0 THEN 0
    ELSE IF is_whitespace(Ch(line, pos)) THEN pos
    ELSE WordStart(line, pos - 1)

Pair(d, r) == [display |-> d, replacement |-> r]

RECURSIVE Pairs(_)
Pairs(ms) == IF ms = <<>> THEN <<>> ELSE <<Pair(Head(ms), Head(ms))>> \o Pairs(Tail(ms))

Reset == [last_prefix |-> None, armed_for_list |-> FALSE]

\* complete that keeps its state when it completes to a longer common prefix
complete_lcp_keeps_state(st, line, pos) ==
    LET start   == WordStart(line, pos)
        prefix  == SubSeq(line, start + 1, pos)
        matches == Matches(prefix)
        lcp     == longest_common_prefix(matches)
    IN  IF start # 0 THEN [st |-> st, start |-> pos, pairs |-> <<>>]
        ELSE IF prefix = "" THEN [st |-> st, start |-> pos, pairs |-> <<>>]
        ELSE IF matches = <<>> THEN [st |-> Reset, start |-> pos, pairs |-> <<>>]
        ELSE IF Len(matches) = 1
        THEN [st |-> Reset, start |-> start,
              pairs |-> <<Pair(matches[1], matches[1] \o " ")>>]
        ELSE IF Len(lcp) > Len(prefix)
        THEN [st |-> st, start |-> start, pairs |-> <<Pair(lcp, lcp)>>]
        ELSE IF st.last_prefix = Some(prefix) /\ st.armed_for_list
        THEN [st |-> [st EXCEPT !.armed_for_list = FALSE], start |-> start,
              pairs |-> Pairs(matches)]
        ELSE [st |-> [last_prefix |-> Some(prefix), armed_for_list |-> TRUE],
              start |-> pos, pairs |-> <<>>]

\* complete that resets its state when the cursor is past the first word
complete_resets_off_command(st, line, pos) ==
    LET start   == WordStart(line, pos)
        prefix  == SubSeq(line, start + 1, pos)
        matches == Matches(prefix)
        lcp     == longest_common_prefix(matches)
    IN  IF start # 0 THEN [st |-> Reset, start |-> pos, pairs |-> <<>>]
        ELSE IF prefix = "" THEN [st |-> st, start |-> pos, pairs |-> <<>>]
        ELSE IF matches = <<>> THEN [st |-> Reset, start |-> pos, pairs |-> <<>>]
        ELSE IF Len(matches) = 1
        THEN [st |-> Reset, start |-> start,
              pairs |-> <<Pair(matches[1], matches[1] \o " ")>>]
        ELSE IF Len(lcp) > Len(prefix)
        THEN [st |-> Reset, start |-> start, pairs |-> <<Pair(lcp, lcp)>>]
        ELSE IF st.last_prefix = Some(prefix) /\ st.armed_for_list
        THEN [st |-> [st EXCEPT !.armed_for_list = FALSE], start |-> start,
              pairs |-> Pairs(matches)]
        ELSE [st |-> [last_prefix |-> Some(prefix), armed_for_list |-> TRUE],
              start |-> pos, pairs |-> <<>>]

\* complete that forgets the prefix but stays armed when nothing matches
complete_nomatch_stays_armed(st, line, pos) ==
    LET start   == WordStart(line, pos)
        prefix  == SubSeq(line, start + 1, pos)
        matches == Matches(prefix)
        lcp     == longest_common_prefix(matches)
    IN  IF start # 0 THEN [st |-> st, start |-> pos, pairs |-> <<>>]
        ELSE IF prefix = "" THEN [st |-> st, start |-> pos, pairs |-> <<>>]
        ELSE IF matches = <<>> THEN [st |-> [st EXCEPT !.last_prefix = None], start |-> pos, pairs |-> <<>>]
        ELSE IF Len(matches) = 1
        THEN [st |-> Reset, start |-> start,
              pairs |-> <<Pair(matches[1], matches[1] \o " ")>>]
        ELSE IF Len(lcp) > Len(prefix)
        THEN [st |-> Reset, start |-> start, pairs |-> <<Pair(lcp, lcp)>>]
        ELSE IF st.last_prefix = Some(prefix) /\ st.armed_for_list
        THEN [st |-> [st EXCEPT !.armed_for_list = FALSE], start |-> start,
              pairs |-> Pairs(matches)]
        ELSE [st |-> [last_prefix |-> Some(prefix), armed_for_list |-> TRUE],
              start |-> pos, pairs |-> <<>>]

\* complete that resets its state on an empty prefix
complete_empty_prefix_resets(st, line, pos) ==
    LET start   == WordStart(line, pos)
        prefix  == SubSeq(line, start + 1, pos)
        matches == Matches(prefix)
        lcp     == longest_common_prefix(matches)
    IN  IF start # 0 THEN [st |-> st, start |-> pos, pairs |-> <<>>]
        ELSE IF prefix = "" THEN [st |-> Reset, start |-> pos, pairs |-> <<>>]
        ELSE IF matches = <<>> THEN [st |-> Reset, start |-> pos, pairs |-> <<>>]
        ELSE IF Len(matches) = 1
        THEN [st |-> Reset, start |-> start,
              pairs |-> <<Pair(matches[1], matches[1] \o " ")>>]
        ELSE IF Len(lcp) > Len(prefix)
        THEN [st |-> Reset, start |-> start, pairs |-> <<Pair(lcp, lcp)>>]
        ELSE IF st.last_prefix = Some(prefix) /\ st.armed_for_list
        THEN [st |-> [st EXCEPT !.armed_for_list = FALSE], start |-> start,
              pairs |-> Pairs(matches)]
        ELSE [st |-> [last_prefix |-> Some(prefix), armed_for_list |-> TRUE],
              start |-> pos, pairs |-> <<>>]

\* complete that keeps its state when it returns the single candidate
complete_single_keeps_state(st, line, pos) ==
    LET start   == WordStart(line, pos)
        prefix  == SubSeq(line, start + 1, pos)
        matches == Matches(prefix)
        lcp     == longest_common_prefix(matches)
    IN  IF start # 0 THEN [st |-> st, start |-> pos, pairs |-> <<>>]
        ELSE IF prefix = "" THEN [st |-> st, start |-> pos, pairs |-> <<>>]
        ELSE IF matches = <<>> THEN [st |-> Reset, start |-> pos, pairs |-> <<>>]
        ELSE IF Len(matches) = 1
        THEN [st |-> st, start |-> start,
              pairs |-> <<Pair(matches[1], matches[1] \o " ")>>]
        ELSE IF Len(lcp) > Len(prefix)
        THEN [st |-> Reset, start |-> start, pairs |-> <<Pair(lcp, lcp)>>]
        ELSE IF st.last_prefix = Some(prefix) /\ st.armed_for_list
        THEN [st |-> [st EXCEPT !.armed_for_list = FALSE], start |-> start,
              pairs |-> Pairs(matches)]
        ELSE [st |-> [last_prefix |-> Some(prefix), armed_for_list |-> TRUE],
              start |-> pos, pairs |-> <<>>]

\* ShellHelper::complete: the state after the request and Ok((start, candidates))
complete(st, line, pos) ==
    LET start   == WordStart(line, pos)
        prefix  == SubSeq(line, start + 1, pos)
        matches == Matches(prefix)
        lcp     == longest_common_prefix(matches)
    IN  IF start # 0 THEN [st |-> st, start |-> pos, pairs |-> <<>>]
        ELSE IF prefix = "" THEN [st |-> st, start |-> pos, pairs |-> <<>>]
        ELSE IF matches = <<>> THEN [st |-> Reset, start |-> pos, pairs |-> <<>>]
        ELSE IF Len(matches) = 1
        THEN [st |-> Reset, start |-> start,
              pairs |-> <<Pair(matches[1], matches[1] \o " ")>>]
        ELSE IF Len(lcp) > Len(prefix)
        THEN [st |-> Reset, start |-> start, pairs |-> <<Pair(lcp, lcp)>>]
        ELSE IF st.last_prefix = Some(prefix) /\ st.armed_for_list
        THEN [st |-> [st EXCEPT !.armed_for_list = FALSE], start |-> start,
              pairs |-> Pairs(matches)]
        ELSE [st |-> [last_prefix |-> Some(prefix), armed_for_list |-> TRUE],
              start |-> pos, pairs |-> <<>>]

(***************************************************************************)
(* SpecComp: the completion requests of one session.  compLog keeps the    *)
(* last CompWindow requests with what each returned.                       *)
(***************************************************************************)
CompWindow == 3

\* the lines completion is requested on, and where the cursor stands in
\* them: at the end of the line or after its first character
CompLines == {"", "e", "ex", "pwd", "z", "e x"}
Cursors(line) == {pos \in 0..Len(line) : pos = Len(line) \/ pos = 1}

CompInit ==
    /\ last_prefix = None
    /\ armed_for_list = FALSE
    /\ compLog = <<>>

\* rustyline calls the helper's complete with the buffer and the cursor
Complete(line, pos) ==
    LET r == complete([last_prefix |-> last_prefix, armed_for_list |-> armed_for_list],
                      line, pos)
        e == [line |-> line, pos |-> pos, start |-> r.start, pairs |-> r.pairs]
    IN  /\ last_prefix' = r.st.last_prefix
        /\ armed_for_list' = r.st.armed_for_list
        /\ compLog' = IF Len(compLog) < CompWindow THEN Append(compLog, e)
                      ELSE Append(Tail(compLog), e)

CompNext ==
    /\ \E line \in CompLines : \E pos \in Cursors(line) : Complete(line, pos)
    /\ UNCHANGED <<tokVars, histVars, sessVars, execVars>>

(***************************************************************************)
(* Builtins                                                                *)
(***************************************************************************)
\* The directories of PATH, in order; PathDirs lists their executable files.
PathDirNames == <<"/bin", "/usr/bin">>

\* find_executable_in_path: the first directory of PATH holding the name
find_executable_in_path(name) ==
    LET hits == {d \in 1..Len(PathDirs) : \E i \in 1..Len(PathDirs[d]) : PathDirs[d][i] = name}
    IN  IF hits = {} THEN None
        ELSE Some(PathDirNames[CHOOSE d \in hits : \A e \in hits : d <= e] \o "/" \o name)

is_builtin(cmd) == cmd \in {"exit", "echo", "pwd", "type", "cd", "history"}

\* [String]::join
RECURSIVE join(_, _)
join(v, sep) ==
    IF v = <<>> THEN ""
    ELSE IF Len(v) = 1 THEN v[1]
    ELSE v[1] \o sep \o join(Tail(v), sep)

Digits == "0123456789"
IsDigit(c) == \E i \in 1..Len(Digits) : Ch(Digits, i) = c
DigitVal(c) == (CHOOSE i \in 1..Len(Digits) : Ch(Digits, i) = c) - 1

RECURSIVE DecValue(_)
DecValue(s) ==
    IF s = "" THEN 0
    ELSE 10 * DecValue(SubSeq(s, 1, Len(s) - 1)) + DigitVal(Ch(s, Len(s)))

\* str::parse::<usize>: an optional "+", then one or more decimal digits
\* (the numerals of the model are far below usize::MAX)
parse_usize(s) ==
    LET d == IF s # "" /\ Ch(s, 1) = "+" THEN SubSeq(s, 2, Len(s)) ELSE s IN
    IF d # "" /\ \A i \in 1..Len(d) : IsDigit(Ch(d, i)) THEN Some(DecValue(d)) ELSE None

\* Display of an unsigned integer
RECURSIVE to_decimal(_)
to_decimal(n) ==
    IF n < 10 THEN Ch(Digits, n + 1)
    ELSE to_decimal(n \div 10) \o Ch(Digits, (n % 10) + 1)

\* the format spec {:>w}: right-aligned in a field of at least w characters
RECURSIVE pad_left(_, _)
pad_left(s, w) == IF Len(s) >= w THEN s ELSE pad_left(" " \o s, w)

\* the `for (idx0, cmd) in history.iter().enumerate().skip(start)` loop; i is 1-based
RECURSIVE HistoryLines(_, _)
HistoryLines(history, i) ==
    IF i > Len(history) THEN ""
    ELSE pad_left(to_decimal(i), 5) \o "  " \o history[i] \o "\n"
            \o HistoryLines(history, i + 1)

\* history_output that ignores its limit
history_output_all(history, n) == HistoryLines(history, 1)

\* history_output; n is an Option<usize>
history_output(history, n) ==
    LET len   == Len(history)
        start == IF n.some /\ n.val < len THEN len - n.val ELSE 0
    IN  HistoryLines(history, start + 1)

\* builtin_bytes whose exit prints a line
builtin_bytes_exit_prints(cmd, args, history, dir) ==
    IF cmd = "echo" THEN [out |-> join(args, " ") \o "\n", err |-> "", code |-> 0]
    ELSE IF cmd = "pwd" THEN [out |-> dir \o "\n", err |-> "", code |-> 0]
    ELSE IF cmd = "exit" THEN [out |-> "exit\n", err |-> "", code |-> 0]
    ELSE [out |-> "", err |-> "", code |-> 0]

\* builtin_bytes: (stdout bytes, stderr bytes, code); dir is env::current_dir()
builtin_bytes(cmd, args, history, dir) ==
    IF cmd = "echo" THEN [out |-> join(args, " ") \o "\n", err |-> "", code |-> 0]
    ELSE IF cmd = "pwd" THEN [out |-> dir \o "\n", err |-> "", code |-> 0]
    ELSE IF cmd = "type"
    THEN IF args = <<>> THEN [out |-> "", err |-> "type: missing operand\n", code |-> 1]
         ELSE IF is_builtin(args[1])
         THEN [out |-> args[1] \o " is a shell builtin\n", err |-> "", code |-> 0]
         ELSE IF find_executable_in_path(args[1]).some
         THEN [out |-> args[1] \o " is " \o find_executable_in_path(args[1]).val \o "\n",
               err |-> "", code |-> 0]
         ELSE [out |-> args[1] \o " not found\n", err |-> "", code |-> 0]
    ELSE IF cmd = "history"
    THEN [out |-> history_output(history,
                       IF Len(args) = 1 THEN parse_usize(args[1]) ELSE None),
          err |-> "", code |-> 0]
    ELSE IF cmd \in {"cd", "exit"} THEN [out |-> "", err |-> "", code |-> 0]
    ELSE [out |-> "", err |-> cmd \o ": command not found\n", code |-> 127]

(***************************************************************************)
(* SpecHist: the history builtin applied to every log of at most MaxHist   *)
(* lines and to a range of argument lists.                                 *)
(***************************************************************************)
HistEntries == {"pwd", "history 1"}

RECURSIVE Logs(_)
Logs(n) == IF n = 0 THEN {<<>>} ELSE {Append(h, l) : h \in Logs(n - 1), l \in HistEntries}

HistArgLists ==
    {<<>>, <<"x">>, <<"+2">>, <<"1", "2">>, <<"10">>}
        \cup {<<to_decimal(n)>> : n \in 0..(MaxHist + 1)}

HistInit ==
    /\ hsHistory \in UNION {Logs(n) : n \in 0..MaxHist}
    /\ hsArgs \in HistArgLists
    /\ hsPc = "call"
    /\ hsOut = ""

HistIdle ==
    /\ hsHistory = <<>>
    /\ hsArgs = <<>>
    /\ hsPc = "idle"
    /\ hsOut = ""

\* builtin_bytes("history", args, history), lines 512-520
HistRun ==
    /\ hsPc = "call"
    /\ hsOut' = builtin_bytes("history", hsArgs, hsHistory, "/").out
    /\ hsPc' = "done"
    /\ UNCHANGED <<hsHistory, hsArgs>>

(***************************************************************************)
(* The file system and the redirect targets.                               *)
(***************************************************************************)
\* The directories that exist, and the home directory of the session.
Dirs == {"/", "/t", "/h"}
HomeDir == "/h"

\* str::trim_end
RECURSIVE trim_end(_)
trim_end(s) ==
    IF s # "" /\ is_whitespace(Ch(s, Len(s))) THEN trim_end(SubSeq(s, 1, Len(s) - 1)) ELSE s

\* how the OS resolves a path of the process whose working directory is dir
abs_path(dir, path) ==
    IF path # "" /\ Ch(path, 1) = "/" THEN path
    ELSE IF dir = "/" THEN "/" \o path
    ELSE dir \o "/" \o path

\* the directory a path lies in
RECURSIVE parent_dir(_)
parent_dir(a) ==
    IF Len(a) <= 1 THEN "/"
    ELSE IF Ch(a, Len(a)) = "/" THEN SubSeq(a, 1, Len(a) - 1)
    ELSE parent_dir(SubSeq(a, 1, Len(a) - 1))

EISDIR == "Is a directory (os error 21)"
ENOENT == "No such file or directory (os error 2)"
ENOEXEC == "Exec format error (os error 8)"

\* File::create and OpenOptions::new().create(true).append(true).open: the
\* file handle (its absolute path) and the file system after the call
OpenFile(redir, fsys, dir) ==
    LET a == abs_path(dir, redir.path) IN
    IF redir.kind = "Inherit" THEN [ok |-> TRUE, file |-> "", fs |-> fsys, e |-> ""]
    ELSE IF a \in Dirs THEN [ok |-> FALSE, file |-> "", fs |-> fsys, e |-> EISDIR]
    ELSE IF redir.path = "" \/ parent_dir(a) \notin Dirs
    THEN [ok |-> FALSE, file |-> "", fs |-> fsys, e |-> ENOENT]
    ELSE IF redir.kind = "Truncate" \/ a \notin DOMAIN fsys
    THEN [ok |-> TRUE, file |-> a, fs |-> (a :> "") @@ fsys, e |-> ""]
    ELSE [ok |-> TRUE, file |-> a, fs |-> fsys, e |-> ""]

open_for_stdout(redir, fsys, dir) == OpenFile(redir, fsys, dir)
open_for_stderr(redir, fsys, dir) == OpenFile(redir, fsys, dir)

\* The observable world a write goes to: the files and the terminal streams.
eprintln(w, msg) == [w EXCEPT !.err = @ \o msg \o "\n"]
WriteFile(w, file, bytes) == [w EXCEPT !.fs = [@ EXCEPT ![file] = @ \o bytes]]

\* write_routed_output: stderr first, then stdout
write_routed_output(w, dir, ob, eb, so, se, cmd) ==
    LET oe == open_for_stderr(se, w.fs, dir)
        w1 == IF se.kind = "Inherit" THEN [w EXCEPT !.err = @ \o eb]
              ELSE IF oe.ok THEN WriteFile([w EXCEPT !.fs = oe.fs], oe.file, eb)
              ELSE eprintln(w, cmd \o ": " \o oe.e)
        oo == open_for_stdout(so, w1.fs, dir)
    IN  IF so.kind = "Inherit" THEN [w1 EXCEPT !.out = @ \o ob]
        ELSE IF oo.ok THEN WriteFile([w1 EXCEPT !.fs = oo.fs], oo.file, ob)
        ELSE eprintln(w1, cmd \o ": " \o oo.e)

\* write_to_target, lines 607-622: the stderr of a pipeline builtin
write_to_target_stderr(w, dir, eb, se) ==
    LET oe == open_for_stderr(se, w.fs, dir) IN
    IF se.kind = "Inherit" THEN [w EXCEPT !.err = @ \o eb]
    ELSE IF oe.ok THEN WriteFile([w EXCEPT !.fs = oe.fs], oe.file, eb)
    ELSE w

\* write_to_target, lines 633-648: the stdout of a last-stage builtin
write_to_target_stdout(w, dir, ob, so) ==
    LET oo == open_for_stdout(so, w.fs, dir) IN
    IF so.kind = "Inherit" THEN [w EXCEPT !.out = @ \o ob]
    ELSE IF oo.ok THEN WriteFile([w EXCEPT !.fs = oo.fs], oo.file, ob)
    ELSE w

(***************************************************************************)
(* Initial values of the session and of the executor.                      *)
(***************************************************************************)
SessInit ==
    /\ pc = "prompt"
    /\ cwd = HomeDir
    /\ history_vec = <<>>
    /\ fs = ("/h/f" :> "old\n")
    /\ out = ""
    /\ err = ""

ExecIdle ==
    /\ stages = <<>>
    /\ si = 0
    /\ pipesOpen = FALSE
    /\ pipes = <<>>
    /\ tasks = <<>>
    /\ detached = {}
    /\ orphans = {}

(***************************************************************************)
(* Stages started by the executor: builtin threads and child processes.    *)
(***************************************************************************)
\* libc::pipe (line 589) creates both descriptors without close-on-exec, and
\* try_clone duplicates with close-on-exec: a process spawned while the parent
\* holds `pipes` inherits both ends of every pipe, besides its own stdio.
PipeFdsCloseOnExec == FALSE

ChildInheritsPipes == pipesOpen /\ ~PipeFdsCloseOnExec

NoTask ==
    [kind |-> "none", cmd |-> "", args |-> <<>>, se |-> Inherit, so |-> Inherit,
     hist |-> <<>>, stdin |-> 0, sink |-> 0, outfile |-> "", st |-> "", got |-> "",
     outb |-> "", inherits |-> FALSE, done |-> FALSE]

\* the closure handed to std::thread::spawn for a builtin stage (lines 690-705)
BuiltinThread(stage, sink, hist) ==
    [NoTask EXCEPT !.kind = "thread", !.cmd = stage.cmd, !.args = stage.args,
                   !.so = stage.stdout, !.se = stage.stderr, !.hist = hist,
                   !.sink = sink, !.st = "start"]

\* the process cmd.spawn() starts (lines 712-757, 534-581)
ChildProcess(stage, stdin, sink, outfile, inherits) ==
    [NoTask EXCEPT !.kind = "child", !.cmd = stage.cmd, !.args = stage.args,
                   !.so = stage.stdout, !.se = stage.stderr, !.stdin = stdin,
                   !.sink = sink, !.outfile = outfile, !.st = "running",
                   !.inherits = inherits]

LiveChild(t) == t.kind = "child" /\ t.st # "exited"
LiveThread(t) == t.kind = "thread" /\ t.st # "done"

\* whether any descriptor of the read end (write end) of pipe p is open
HasReader(p) ==
    \/ pipesOpen
    \/ \E k \in 1..Len(tasks) : LiveChild(tasks[k]) /\ (tasks[k].stdin = p \/ tasks[k].inherits)

HasWriter(p) ==
    \/ pipesOpen
    \/ \E k \in 1..Len(tasks) :
          \/ LiveThread(tasks[k]) /\ tasks[k].sink = p
          \/ LiveChild(tasks[k]) /\ (tasks[k].sink = p \/ tasks[k].inherits)

W == [fs |-> fs, out |-> out, err |-> err]
SetW(w) == fs' = w.fs /\ out' = w.out /\ err' = w.err

Room(p) == PipeCap - Len(pipes[p])

\* write(2) on a task's stdout: "ok" (some bytes are taken), "epipe" (no
\* reader is left) or "blocked" (the pipe is full); a terminal or a file
\* takes everything
WriteStatus(t, bytes) ==
    IF t.sink = 0 \/ bytes = "" THEN "ok"
    ELSE IF ~HasReader(t.sink) THEN "epipe"
    ELSE IF Room(t.sink) > 0 THEN "ok"
    ELSE "blocked"

\* the bytes the write takes and the bytes left to write after it
Taken(t, bytes) ==
    IF t.sink = 0 THEN bytes
    ELSE IF WriteStatus(t, bytes) # "ok" THEN ""
    ELSE IF Len(bytes) <= Room(t.sink) THEN bytes
    ELSE SubSeq(bytes, 1, Room(t.sink))

Rest(t, bytes) ==
    IF WriteStatus(t, bytes) = "ok" THEN SubSeq(bytes, Len(Taken(t, bytes)) + 1, Len(bytes))
    ELSE ""

PipesAfterWrite(t, bytes) ==
    IF t.sink # 0 THEN [pipes EXCEPT ![t.sink] = @ \o Taken(t, bytes)] ELSE pipes

WorldAfterWrite(t, bytes) ==
    IF t.sink # 0 THEN W
    ELSE IF t.outfile = "" THEN [W EXCEPT !.out = @ \o bytes]
    ELSE WriteFile(W, t.outfile, bytes)

(***************************************************************************)
(* The external programs of the session's PATH (the environment).          *)
(***************************************************************************)
RECURSIVE CountLines(_)
CountLines(t) ==
    IF t = "" THEN 0
    ELSE (IF Ch(t, 1) = "\n" THEN 1 ELSE 0) + CountLines(SubSeq(t, 2, Len(t)))

RECURSIVE FirstLines(_, _)
FirstLines(t, n) ==
    IF t = "" \/ n = 0 THEN ""
    ELSE Ch(t, 1) \o FirstLines(SubSeq(t, 2, Len(t)), IF Ch(t, 1) = "\n" THEN n - 1 ELSE n)

\* head -n K; head prints 10 lines by default
HeadCount(args) ==
    IF Len(args) = 2 /\ args[1] = "-n" /\ parse_usize(args[2]).some
    THEN parse_usize(args[2]).val ELSE 10

\* whether exec of the file succeeds
Executes(cmd) == cmd # "bad"

\* One step of a child process: whether it can take it, the process after
\* it, the pipes and the world after it.
\*   yes   writes "y\n" for ever and dies of SIGPIPE once nobody reads;
\*   head  reads its stdin until it has its lines or end-of-file, prints them;
\*   every other program exits at once without output.
\* A process whose write fails with EPIPE is killed by SIGPIPE (spawn resets
\* the signal to its default in the child).
ProgStep(k) ==
    LET t == tasks[k]
        stay == [can |-> FALSE, task |-> t, pipes |-> pipes, w |-> W]
        data == IF t.cmd = "yes" /\ t.outb = "" THEN "y\n" ELSE t.outb
        rest == Rest(t, data)
    IN
    IF t.st = "flush" \/ t.cmd = "yes"
    THEN IF WriteStatus(t, data) = "blocked" THEN stay
         ELSE IF WriteStatus(t, data) = "epipe"
         THEN [can |-> TRUE, task |-> [t EXCEPT !.st = "exited", !.outb = ""],
               pipes |-> pipes, w |-> W]
         ELSE [can |-> TRUE,
               task |-> IF t.st = "flush" /\ rest = ""
                        THEN [t EXCEPT !.st = "exited", !.outb = ""]
                        ELSE [t EXCEPT !.outb = rest],
               pipes |-> PipesAfterWrite(t, data), w |-> WorldAfterWrite(t, data)]
    ELSE IF t.cmd = "head"
    THEN IF t.stdin = 0 THEN stay
         ELSE IF pipes[t.stdin] # ""
         THEN LET got == t.got \o pipes[t.stdin] IN
              [can |-> TRUE,
               task |-> IF CountLines(got) >= HeadCount(t.args)
                        THEN [t EXCEPT !.st = "flush", !.got = "",
                                       !.outb = FirstLines(got, HeadCount(t.args))]
                        ELSE [t EXCEPT !.got = got],
               pipes |-> [pipes EXCEPT ![t.stdin] = ""], w |-> W]
         ELSE IF HasWriter(t.stdin) THEN stay
         ELSE [can |-> TRUE, task |-> [t EXCEPT !.st = "flush", !.got = "", !.outb = t.got],
               pipes |-> pipes, w |-> W]
    ELSE [can |-> TRUE, task |-> [t EXCEPT !.st = "exited"], pipes |-> pipes, w |-> W]

(***************************************************************************)
(* The control loop of main.                                               *)
(***************************************************************************)
\* The raw lines the user types (readline returns them without the newline).
SessLines ==
    {"cd /t", "cd /t | true", "pwd  ", "cd /x", "echo hi >", "echo a > g | echo >",
     "| pwd", "yes | head -n 3", "type | true | nosuch", "true | nosuch", "exit | true", "nosuch 2> e", "cd /x | true", "history | true", "true | true > /t",
     "true | bad", "true > f", "true >> f", "cd > f", "echo hi | true", "exit", "  "}

\* main, lines 803 and 814-827, for each of them
Parsed == [raw \in SessLines |-> ParseLine(trim_end(raw))]

\* the single-stage test that looks at the first stage only
IsSingle_nonempty(sts) == Len(sts) >= 1

\* main, line 830
IsSingle(sts) == Len(sts) = 1

others == <<tokVars, compVars, histVars>>

\* the acceptance of a line that logs only the lines that parse
Accept_logs_valid_only(raw) ==
    /\ pc = "prompt"
    /\ Len(history_vec) < MaxLines
    /\ trim_end(raw) # ""
    /\ history_vec' = IF Parsed[raw].stages = <<>> THEN history_vec
                      ELSE Append(history_vec, trim_end(raw))

\* lines 803-812: a non-empty line is pushed to the history
Accept(raw) ==
    /\ pc = "prompt"
    /\ Len(history_vec) < MaxLines
    /\ trim_end(raw) # ""
    /\ history_vec' = Append(history_vec, trim_end(raw))

Fresh == [fs |-> fs, out |-> "", err |-> ""]

\* line 795: an interrupt at the prompt
ReadInterrupted ==
    /\ pc = "prompt"
    /\ UNCHANGED vars

\* line 796 (and 797-800): end of input
ReadEof ==
    /\ pc = "prompt"
    /\ pc' = "exited"
    /\ UNCHANGED <<cwd, history_vec, fs, out, err, execVars, others>>

\* lines 803-806: a blank line
ReadBlank(raw) ==
    /\ pc = "prompt"
    /\ trim_end(raw) = ""
    /\ UNCHANGED vars

\* lines 814-827: the line does not parse
RejectLine(raw) ==
    /\ Accept(raw)
    /\ Parsed[raw].stages = <<>>
    /\ SetW([Fresh EXCEPT !.err = join(Parsed[raw].err, "\n") \o "\n"])
    /\ UNCHANGED <<pc, cwd, execVars, others>>

\* lines 833-835
RunExit(raw) ==
    /\ Accept(raw)
    /\ IsSingle(Parsed[raw].stages)
    /\ Parsed[raw].stages[1].cmd = "exit"
    /\ pc' = "exited"
    /\ SetW(Fresh)
    /\ UNCHANGED <<cwd, execVars, others>>

\* lines 837-858
RunCd(raw) ==
    /\ Accept(raw)
    /\ IsSingle(Parsed[raw].stages)
    /\ LET s == Parsed[raw].stages[1]
           dest == s.args[1]
           target == IF dest = "~" THEN HomeDir ELSE abs_path(cwd, dest)
       IN  /\ s.cmd = "cd"
           /\ IF s.args = <<>> THEN cwd' = cwd /\ SetW(Fresh)
              ELSE IF target \in Dirs THEN cwd' = target /\ SetW(Fresh)
              ELSE /\ cwd' = cwd
                   /\ SetW(eprintln(Fresh, "cd: " \o dest \o ": No such file or directory"))
    /\ UNCHANGED <<pc, execVars, others>>

\* lines 860-864
RunBuiltin(raw) ==
    /\ Accept(raw)
    /\ IsSingle(Parsed[raw].stages)
    /\ LET s == Parsed[raw].stages[1]
           b == builtin_bytes(s.cmd, s.args, history_vec', cwd)
       IN  /\ s.cmd \notin {"exit", "cd"}
           /\ is_builtin(s.cmd)
           /\ SetW(write_routed_output(Fresh, cwd, b.out, b.err, s.stdout, s.stderr, s.cmd))
    /\ UNCHANGED <<pc, cwd, execVars, others>>

\* What precedes the wait for an external stage: resolution, the redirect
\* files, the spawn (lines 529-581 and 707-762).  honour says whether the
\* stage's stdout redirect applies (not for a stage that writes to a pipe).
PrepareExternal(s, honour, w, dir) ==
    LET oo == IF honour THEN open_for_stdout(s.stdout, w.fs, dir)
              ELSE [ok |-> TRUE, file |-> "", fs |-> w.fs, e |-> ""]
        w1 == [w EXCEPT !.fs = oo.fs]
        oe == open_for_stderr(s.stderr, w1.fs, dir)
        w2 == [w1 EXCEPT !.fs = oe.fs]
    IN  IF ~find_executable_in_path(s.cmd).some
        THEN [ok |-> FALSE, w |-> eprintln(w, s.cmd \o ": command not found"), outfile |-> ""]
        ELSE IF ~oo.ok
        THEN [ok |-> FALSE, w |-> eprintln(w, s.cmd \o ": " \o oo.e), outfile |-> ""]
        ELSE IF ~oe.ok
        THEN [ok |-> FALSE, w |-> eprintln(w1, s.cmd \o ": " \o oe.e), outfile |-> ""]
        ELSE IF ~Executes(s.cmd)
        THEN [ok |-> FALSE, w |-> eprintln(w2, s.cmd \o ": " \o ENOEXEC), outfile |-> ""]
        ELSE [ok |-> TRUE, w |-> w2, outfile |-> oo.file]

\* line 867, run_single_external up to child.wait()
RunExternal(raw) ==
    /\ Accept(raw)
    /\ IsSingle(Parsed[raw].stages)
    /\ LET s == Parsed[raw].stages[1]
           r == PrepareExternal(s, TRUE, Fresh, cwd)
       IN  /\ ~is_builtin(s.cmd)
           /\ SetW(r.w)
           /\ IF r.ok
              THEN /\ pc' = "wait"
                   /\ stages' = Parsed[raw].stages
                   /\ tasks' = <<ChildProcess(s, 0, 0, r.outfile, FALSE)>>
              ELSE UNCHANGED <<pc, stages, tasks>>
    /\ UNCHANGED <<cwd, si, pipesOpen, pipes, detached, orphans, others>>

\* line 872 and execute_pipeline, lines 653-670: the pipes are made
StartPipeline(raw) ==
    /\ Accept(raw)
    /\ Len(Parsed[raw].stages) > 1
    /\ pc' = "setup"
    /\ stages' = Parsed[raw].stages
    /\ si' = 1
    /\ pipes' = [p \in 1..(Len(Parsed[raw].stages) - 1) |-> ""]
    /\ pipesOpen' = TRUE
    /\ tasks' = <<>>
    /\ SetW(Fresh)
    /\ UNCHANGED <<cwd, detached, orphans, others>>

(***************************************************************************)
(* execute_pipeline                                                        *)
(***************************************************************************)
IsLast == si = Len(stages)

AfterSetup ==
    /\ si' = si + 1
    /\ pc' = IF IsLast THEN "drop" ELSE "setup"

\* lines 690-705: a builtin stage gets a thread
SetupBuiltin ==
    /\ pc = "setup"
    /\ is_builtin(stages[si].cmd)
    /\ tasks' = Append(tasks, BuiltinThread(stages[si], IF IsLast THEN 0 ELSE si, history_vec))
    /\ AfterSetup
    /\ UNCHANGED <<cwd, history_vec, fs, out, err, stages, pipesOpen, pipes, detached,
                   orphans, others>>

\* lines 706-762: an external stage is spawned
SetupExternal ==
    /\ pc = "setup"
    /\ ~is_builtin(stages[si].cmd)
    /\ LET r == PrepareExternal(stages[si], IsLast, W, cwd) IN
       /\ r.ok
       /\ SetW(r.w)
       /\ tasks' = Append(tasks, ChildProcess(stages[si], si - 1, IF IsLast THEN 0 ELSE si,
                                               r.outfile, ChildInheritsPipes))
    /\ AfterSetup
    /\ UNCHANGED <<cwd, history_vec, stages, pipesOpen, pipes, detached, orphans, others>>

\* What a return of execute_pipeline leaves behind: the locals are dropped,
\* which closes the parent's pipe descriptors, detaches the threads not
\* joined and abandons the children not waited for.
Unjoined == {k \in 1..Len(tasks) : tasks[k].kind = "thread" /\ ~tasks[k].done}
Unreaped == {k \in 1..Len(tasks) : tasks[k].kind = "child" /\ ~tasks[k].done}

LeaveExecutor ==
    /\ pc' = "prompt"
    /\ stages' = <<>>
    /\ si' = 0
    /\ pipesOpen' = FALSE
    /\ pipes' = <<>>
    /\ tasks' = <<>>
    /\ detached' = detached \cup {tasks[k] : k \in {j \in Unjoined : tasks[j].st = "start"}}
    /\ orphans' = orphans \cup {<<Len(history_vec), k>> : k \in Unreaped}

\* lines 707-710, 735-738, 749-752, 758-761: the stage cannot be started
AbandonStage ==
    /\ pc = "setup"
    /\ ~is_builtin(stages[si].cmd)
    /\ LET r == PrepareExternal(stages[si], IsLast, W, cwd) IN
       /\ ~r.ok
       /\ SetW(r.w)
    /\ LeaveExecutor
    /\ UNCHANGED <<cwd, history_vec, others>>

\* line 767
DropPipes ==
    /\ pc = "drop"
    /\ pipesOpen' = FALSE
    /\ pc' = "join"
    /\ UNCHANGED <<cwd, history_vec, fs, out, err, stages, si, pipes, tasks, detached,
                   orphans, others>>

Lowest(S) == CHOOSE k \in S : \A j \in S : k <= j

\* lines 770-772: h.join() returns once the thread has finished
JoinThread ==
    /\ pc = "join"
    /\ Unjoined # {}
    /\ tasks[Lowest(Unjoined)].st = "done"
    /\ tasks' = [tasks EXCEPT ![Lowest(Unjoined)].done = TRUE]
    /\ UNCHANGED <<pc, cwd, history_vec, fs, out, err, stages, si, pipesOpen, pipes,
                   detached, orphans, others>>

JoinsDone ==
    /\ pc = "join"
    /\ Unjoined = {}
    /\ pc' = "wait"
    /\ UNCHANGED <<cwd, history_vec, fs, out, err, stages, si, pipesOpen, pipes, tasks,
                   detached, orphans, others>>

\* lines 775-777 and 583: c.wait() returns once the child has exited
WaitChild ==
    /\ pc = "wait"
    /\ Unreaped # {}
    /\ tasks[Lowest(Unreaped)].st = "exited"
    /\ tasks' = [tasks EXCEPT ![Lowest(Unreaped)].done = TRUE]
    /\ UNCHANGED <<pc, cwd, history_vec, fs, out, err, stages, si, pipesOpen, pipes,
                   detached, orphans, others>>

\* line 778 and 584
Return ==
    /\ pc = "wait"
    /\ Unreaped = {}
    /\ LeaveExecutor
    /\ UNCHANGED <<cwd, history_vec, fs, out, err, others>>

\* lines 702 and 607-622: the thread computes the builtin and routes its stderr
ThreadStart(k) ==
    /\ tasks[k].kind = "thread"
    /\ tasks[k].st = "start"
    /\ LET t == tasks[k]
           b == builtin_bytes(t.cmd, t.args, t.hist, cwd)
       IN  /\ SetW(write_to_target_stderr(W, cwd, b.err, t.se))
           /\ tasks' = [tasks EXCEPT ![k].st = "write", ![k].outb = b.out]
    /\ UNCHANGED <<pc, cwd, history_vec, stages, si, pipesOpen, pipes, detached, orphans,
                   others>>

\* lines 624-648: the thread writes its stdout, to the pipe when it has one
\* (a failed write is ignored), and drops the pipe's write end
ThreadWrite(k) ==
    /\ tasks[k].kind = "thread"
    /\ tasks[k].st = "write"
    /\ LET t == tasks[k] IN
       /\ WriteStatus(t, t.outb) # "blocked"
       /\ pipes' = PipesAfterWrite(t, t.outb)
       /\ SetW(IF t.sink # 0 THEN W ELSE write_to_target_stdout(W, cwd, t.outb, t.so))
       /\ tasks' = IF Rest(t, t.outb) = ""
                   THEN [tasks EXCEPT ![k].st = "done", ![k].outb = ""]
                   ELSE [tasks EXCEPT ![k].outb = Rest(t, t.outb)]
    /\ UNCHANGED <<pc, cwd, history_vec, stages, si, pipesOpen, detached, orphans, others>>

\* a step of a spawned process
ChildStep(k) ==
    /\ LiveChild(tasks[k])
    /\ LET r == ProgStep(k) IN
       /\ r.can
       /\ tasks' = [tasks EXCEPT ![k] = r.task]
       /\ pipes' = r.pipes
       /\ SetW(r.w)
    /\ UNCHANGED <<pc, cwd, history_vec, stages, si, pipesOpen, detached, orphans, others>>

\* a thread that execute_pipeline left without joining runs, as long as the
\* process lives (leaving main ends every thread): its stderr is
\* routed; its stdout goes to a pipe (only a stage before the abandoned one
\* can be left) whose bytes nobody will see
DetachedRun(t) ==
    /\ t \in detached
    /\ pc # "exited"
    /\ LET b == builtin_bytes(t.cmd, t.args, t.hist, cwd) IN
       SetW(write_to_target_stderr(W, cwd, b.err, t.se))
    /\ detached' = detached \ {t}
    /\ UNCHANGED <<pc, cwd, history_vec, stages, si, pipesOpen, pipes, tasks, orphans,
                   others>>

\* the steps inside execute_pipeline and run_single_external
ExecNext ==
    \/ SetupBuiltin
    \/ SetupExternal
    \/ AbandonStage
    \/ DropPipes
    \/ JoinThread
    \/ JoinsDone
    \/ WaitChild
    \/ Return
    \/ \E k \in 1..Len(tasks) : ThreadStart(k)
    \/ \E k \in 1..Len(tasks) : ThreadWrite(k)
    \/ \E k \in 1..Len(tasks) : ChildStep(k)

Next ==
    \/ ReadInterrupted
    \/ ReadEof
    \/ \E raw \in SessLines : ReadBlank(raw)
    \/ \E raw \in SessLines : RejectLine(raw)
    \/ \E raw \in SessLines : RunExit(raw)
    \/ \E raw \in SessLines : RunCd(raw)
    \/ \E raw \in SessLines : RunBuiltin(raw)
    \/ \E raw \in SessLines : RunExternal(raw)
    \/ \E raw \in SessLines : StartPipeline(raw)
    \/ ExecNext
    \/ \E t \in detached : DetachedRun(t)

Init == TokIdle /\ CompInit /\ HistIdle /\ SessInit /\ ExecIdle

Spec == Init /\ [][Next]_vars

(***************************************************************************)
(* The specifications.                                                     *)
(***************************************************************************)
otherThanTok  == <<compVars, histVars, sessVars, execVars>>

InitTok == TokInit /\ CompInit /\ HistIdle /\ SessInit /\ ExecIdle

TokNext ==
    \/ TokTokenize /\ UNCHANGED otherThanTok
    \/ TokSplit /\ UNCHANGED otherThanTok
    \/ TokParse /\ UNCHANGED otherThanTok

SpecTok == InitTok /\ [][TokNext]_vars

InitParse == ParseInit /\ CompInit /\ HistIdle /\ SessInit /\ ExecIdle

ParseNext == TokParse /\ UNCHANGED otherThanTok

SpecParse == InitParse /\ [][ParseNext]_vars

InitComp == TokIdle /\ CompInit /\ HistIdle /\ SessInit /\ ExecIdle

SpecComp == InitComp /\ [][CompNext]_vars

InitHist == TokIdle /\ CompInit /\ HistInit /\ SessInit /\ ExecIdle

HistNext == HistRun /\ UNCHANGED <<tokVars, compVars, sessVars, execVars>>

SpecHist == InitHist /\ [][HistNext]_vars

(***************************************************************************)
(* Claims about the tokenizer and the parser (SpecTok).                    *)
(***************************************************************************)
\* How many pipe characters of the line are outside quotes and not escaped,
\* read off the line by the quoting rules; q is the open quote, "" for none.
RECURSIVE UnquotedPipes(_, _, _, _)
UnquotedPipes(line, i, q, esc) ==
    IF i > Len(line) THEN 0
    ELSE LET ch == Ch(line, i) IN
         IF esc THEN UnquotedPipes(line, i + 1, q, FALSE)
         ELSE IF q = "'" THEN UnquotedPipes(line, i + 1, IF ch = "'" THEN "" ELSE q, FALSE)
         ELSE IF ch = "\\" THEN UnquotedPipes(line, i + 1, q, TRUE)
         ELSE IF q = "\"" THEN UnquotedPipes(line, i + 1, IF ch = "\"" THEN "" ELSE q, FALSE)
         ELSE IF ch \in {"'", "\""} THEN UnquotedPipes(line, i + 1, ch, FALSE)
         ELSE (IF ch = "|" THEN 1 ELSE 0) + UnquotedPipes(line, i + 1, q, FALSE)

TokSplitDone == tkPc \in {"chunks", "stages", "syntax"}

\* C4: a line whose pipe characters are all quoted or escaped is split into
\* exactly one stage holding all its tokens, and is no syntax error.
C4_QuotedPipeIsArgument ==
    (TokSplitDone /\ tkTokens # <<>> /\ UnquotedPipes(tkLine, 1, "", FALSE) = 0)
        => (tkChunks.some /\ tkChunks.val = <<tkTokens>>)

\* The text between the enclosing double quotes of a line that is one
\* double-quoted word: no unescaped double quote and no unpaired backslash in it.
DQBody(line) == SubSeq(line, 2, Len(line) - 1)

RECURSIVE DQBodyOk(_, _)
DQBodyOk(b, i) ==
    IF i > Len(b) THEN TRUE
    ELSE IF Ch(b, i) = "\\" THEN i + 1 <= Len(b) /\ DQBodyOk(b, i + 2)
    ELSE Ch(b, i) # "\"" /\ DQBodyOk(b, i + 1)

DQWord(line) ==
    /\ Len(line) >= 2
    /\ Ch(line, 1) = "\""
    /\ Ch(line, Len(line)) = "\""
    /\ DQBodyOk(DQBody(line), 1)

\* What the documented rules make of the body: a backslash before one of the
\* four escapable characters yields that character, before any other
\* character the backslash and the character; everything else is itself.
RECURSIVE DQDecode(_, _)
DQDecode(b, i) ==
    IF i > Len(b) THEN ""
    ELSE IF Ch(b, i) = "\\"
         THEN (IF Ch(b, i + 1) \in {"\\", "\"", "$", Backtick}
               THEN Ch(b, i + 1) ELSE "\\" \o Ch(b, i + 1)) \o DQDecode(b, i + 2)
         ELSE Ch(b, i) \o DQDecode(b, i + 1)

\* C7: a double-quoted word tokenizes to the single token the escaping rules
\* give (to no token when that text is empty), the quotes never emitted; the
\* documented example yields exactly the token a$b"c\d.
C7_DoubleQuoteEscapes ==
    (tkPc = "tokens" /\ DQWord(tkLine))
        => /\ tkTokens = (IF DQDecode(DQBody(tkLine), 1) = "" THEN <<>>
                          ELSE <<DQDecode(DQBody(tkLine), 1)>>)
           /\ (tkLine = "\"a\\$b\\\"c\\d\"" => tkTokens = <<"a$b\"c\\d">>)

C7_Witness ==
    tkPc = "tokens" /\ tkLine = "\"a\\$b\\\"c\\d\"" /\ tkTokens = <<"a$b\"c\\d">>

\* A line `echo 's'` with no single quote in s, and its s.
RECURSIVE HasChar(_, _)
HasChar(s, c) == s # "" /\ (Ch(s, 1) = c \/ HasChar(SubSeq(s, 2, Len(s)), c))

SQLine(line) ==
    /\ Len(line) >= 7
    /\ SubSeq(line, 1, 6) = "echo '"
    /\ Ch(line, Len(line)) = "'"
    /\ ~HasChar(SubSeq(line, 7, Len(line) - 1), "'")

SQBody(line) == SubSeq(line, 7, Len(line) - 1)

\* C8 as stated: every single-quoted text after a command is exactly one
\* argument equal to the text.
C8_SingleQuoteVerbatim_Original ==
    (tkPc = "tokens" /\ SQLine(tkLine)) => tkTokens = <<"echo", SQBody(tkLine)>>

\* C8 as amended: every non-empty single-quoted text after a command is
\* exactly one argument equal to the text, copied verbatim.
C8_SingleQuoteVerbatim ==
    (tkPc = "tokens" /\ SQLine(tkLine) /\ SQBody(tkLine) # "")
        => tkTokens = <<"echo", SQBody(tkLine)>>

C8_Witness ==
    tkPc = "tokens" /\ tkLine = "echo 'a $b \\c'" /\ tkTokens = <<"echo", "a $b \\c">>

(***************************************************************************)
(* Claims about the completion engine (SpecComp).                          *)
(***************************************************************************)
\* What a logged request asked for: whether the cursor is in the first word,
\* and the word before the cursor.
RECURSIVE LastWord(_)
LastWord(t) ==
    IF t = "" \/ Ch(t, Len(t)) \in {" ", "\t"} THEN ""
    ELSE LastWord(SubSeq(t, 1, Len(t) - 1)) \o Ch(t, Len(t))

ReqWord(e) == LastWord(SubSeq(e.line, 1, e.pos))
ReqAtCommand(e) == ReqWord(e) = SubSeq(e.line, 1, e.pos)

\* The candidates of a prefix as a set, and whether they are ambiguous with no
\* common prefix beyond the typed one.
AllCandidates ==
    {CompletionBuiltins[i] : i \in 1..Len(CompletionBuiltins)}
        \cup UNION {{PathDirs[d][i] : i \in 1..Len(PathDirs[d])} : d \in 1..Len(PathDirs)}

CandidateSet(p) == {n \in AllCandidates : starts_with(n, p)}

Ambiguous(p) ==
    /\ Cardinality(CandidateSet(p)) > 1
    /\ \/ p \in CandidateSet(p)
       \/ \E m, n \in CandidateSet(p) : Ch(m, Len(p) + 1) # Ch(n, Len(p) + 1)

\* A request at command position for the non-empty ambiguous prefix p.
AmbiguousRequest(e, p) == ReqAtCommand(e) /\ ReqWord(e) = p /\ p # "" /\ Ambiguous(p)

Bell(e) == e.pairs = <<>>

\* The full candidate list of p: every candidate once, in increasing order.
Lists(e, p) ==
    /\ {e.pairs[i].display : i \in 1..Len(e.pairs)} = CandidateSet(p)
    /\ \A i \in 1..Len(e.pairs) - 1 : StrLess(e.pairs[i].display, e.pairs[i + 1].display)
    /\ \A i \in 1..Len(e.pairs) : e.pairs[i].replacement = e.pairs[i].display

\* The first request of a session bells, and a request straight after a bell
\* for the same prefix lists.
TwoStepReveal ==
    /\ \A p \in CompLines :
         (Len(compLog) = 1 /\ AmbiguousRequest(compLog[1], p)) => Bell(compLog[1])
    /\ \A i \in 1..Len(compLog) - 1 : \A p \in CompLines :
         (AmbiguousRequest(compLog[i], p) /\ Bell(compLog[i])
            /\ AmbiguousRequest(compLog[i + 1], p)) => Lists(compLog[i + 1], p)

\* C5 as stated: two-step reveal, and after a bell for p a request for any
\* different prefix makes the next request for p bell again.
C5_TwoStepReveal_Original ==
    /\ TwoStepReveal
    /\ \A i \in 1..Len(compLog) - 2 : \A p \in CompLines :
         (AmbiguousRequest(compLog[i], p) /\ Bell(compLog[i])
            /\ ReqWord(compLog[i + 1]) # p
            /\ AmbiguousRequest(compLog[i + 2], p)) => Bell(compLog[i + 2])

\* C5 as amended: two-step reveal, and after a bell for p a request at command
\* position for a different non-empty prefix makes the next request for p
\* bell again.
C5_TwoStepReveal ==
    /\ TwoStepReveal
    /\ \A i \in 1..Len(compLog) - 2 : \A p \in CompLines :
         (AmbiguousRequest(compLog[i], p) /\ Bell(compLog[i])
            /\ ReqAtCommand(compLog[i + 1])
            /\ ReqWord(compLog[i + 1]) \notin {p, ""}
            /\ AmbiguousRequest(compLog[i + 2], p)) => Bell(compLog[i + 2])

C5_Witness ==
    /\ Len(compLog) = 3
    /\ AmbiguousRequest(compLog[1], "e") /\ Bell(compLog[1])
    /\ ReqAtCommand(compLog[2]) /\ ReqWord(compLog[2]) = "pwd"
    /\ AmbiguousRequest(compLog[3], "e") /\ Bell(compLog[3])
    /\ last_prefix = Some("e") /\ armed_for_list

(***************************************************************************)
(* Claims about the history builtin (SpecHist).                            *)
(***************************************************************************)
\* The lines of a text in which every line ends with a newline.
RECURSIVE TextLines(_, _)
TextLines(t, cur) ==
    IF t = "" THEN <<>>
    ELSE IF Ch(t, 1) = "\n" THEN <<cur>> \o TextLines(SubSeq(t, 2, Len(t)), "")
    ELSE TextLines(SubSeq(t, 2, Len(t)), cur \o Ch(t, 1))

\* The output shows exactly the last k entries of the log, in order, each
\* labelled with its 1-based index in the whole log.
ShowsLast(text, log, k) ==
    LET ls == TextLines(text, "") IN
    /\ Len(ls) = k
    /\ \A j \in 1..k :
         ls[j] = pad_left(to_decimal(Len(log) - k + j), 5) \o "  " \o log[Len(log) - k + j]

\* C10: `history n` prints the last min(n, len) entries with their original
\* indices, `history` prints all len entries.
C10_HistoryLastN ==
    hsPc = "done" =>
        /\ hsArgs = <<>> => ShowsLast(hsOut, hsHistory, Len(hsHistory))
        /\ \A n \in 0..(MaxHist + 10) :
             hsArgs = <<to_decimal(n)>> =>
                ShowsLast(hsOut, hsHistory, IF n < Len(hsHistory) THEN n ELSE Len(hsHistory))

C10_Witness ==
    /\ hsPc = "done"
    /\ hsArgs = <<"2">>
    /\ hsHistory = <<"pwd", "history 1", "pwd">>
    /\ hsOut = "    2  history 1\n    3  pwd\n"

(***************************************************************************)
(* Claims about the session and the pipeline executor (Spec).              *)
(***************************************************************************)
InExecutor == pc \in {"setup", "drop", "join", "wait"}
StageCmds == [i \in 1..Len(stages) |-> stages[i].cmd]
LastLine == history_vec[Len(history_vec)]
Accepted == Len(history_vec') = Len(history_vec) + 1

\* C1: a pipeline whose first stage writes without bound and whose last stage
\* exits after a bounded read (yes | head -n 3) returns: while the executor
\* runs it, the executor or one of the stages can always take a step, so no
\* wait blocks for ever.
C1_PipelineTerminates ==
    (InExecutor /\ StageCmds = <<"yes", "head">>) => ENABLED ExecNext

\* C2: the working directory changes only when the accepted line is a single
\* stage whose command is cd with a valid target, and a standalone pwd prints
\* the working directory, whatever cd stages earlier pipelines had.
C2_SubshellIsolation ==
    [][/\ cwd' # cwd =>
            /\ Accepted
            /\ LET st == ParseLine(history_vec'[Len(history_vec')]).stages IN
               /\ Len(st) = 1
               /\ st[1].cmd = "cd"
               /\ st[1].args # <<>>
               /\ cwd' \in Dirs
               /\ cwd' = IF st[1].args[1] = "~" THEN HomeDir
                         ELSE abs_path(cwd, st[1].args[1])
       /\ (Accepted /\ history_vec'[Len(history_vec')] = "pwd") =>
            (out' = cwd \o "\n" /\ cwd' = cwd)]_vars

C2_Witness ==
    /\ history_vec = <<"cd /t | true", "pwd">>
    /\ pc = "prompt"
    /\ cwd = "/h"
    /\ out = "/h\n"

\* The syntax errors of a token sequence: an empty pipeline stage, or a stage
\* in which a redirection operator after the command name has no token after it.
RedirectOperators == {">", "1>", ">>", "1>>", "2>", "2>>"}

EmptyStage(tokens) ==
    /\ tokens # <<>>
    /\ \/ tokens[1] = "|"
       \/ tokens[Len(tokens)] = "|"
       \/ \E i \in 1..Len(tokens) - 1 : tokens[i] = "|" /\ tokens[i + 1] = "|"

RECURSIVE DanglingOperator(_, _, _)
DanglingOperator(tokens, i, atCommand) ==
    IF i > Len(tokens) THEN FALSE
    ELSE IF tokens[i] = "|" THEN DanglingOperator(tokens, i + 1, TRUE)
    ELSE IF atCommand THEN DanglingOperator(tokens, i + 1, FALSE)
    ELSE IF tokens[i] \in RedirectOperators
    THEN \/ i = Len(tokens)
         \/ tokens[i + 1] = "|"
         \/ DanglingOperator(tokens, i + 2, FALSE)
    ELSE DanglingOperator(tokens, i + 1, FALSE)

HasSyntaxError(line) ==
    EmptyStage(tokenize(line)) \/ DanglingOperator(tokenize(line), 1, TRUE)

\* C3: accepting a line with a dangling redirection operator or an empty
\* stage starts no stage, opens or creates no file, produces no output,
\* reports the error and leaves the loop at the next prompt.
C3_SyntaxErrorIsolation ==
    [][(Accepted /\ HasSyntaxError(history_vec'[Len(history_vec')])) =>
            /\ pc' = "prompt"
            /\ fs' = fs
            /\ out' = ""
            /\ err' # ""
            /\ tasks' = <<>>
            /\ cwd' = cwd
            /\ UNCHANGED <<detached, orphans>>]_vars

C3_Witness ==
    /\ history_vec # <<>>
    /\ LastLine = "echo hi >"
    /\ pc = "prompt"
    /\ out = ""
    /\ err = "echo: syntax error near unexpected token ^newline^\n"
    /\ tasks = <<>>
    /\ DOMAIN fs = {"/h/f"}

\* C6: when the setup of a stage is abandoned, every process spawned for an
\* earlier stage has been waited for by the time execute_pipeline returns:
\* no line leaves a process that was never waited for.
C6_EarlierStagesReaped ==
    pc = "prompt" => orphans = {}

\* C9: after a single-stage line with `> path` whose command writes nothing
\* to stdout the file exists and is empty; after one with `>> path` the file
\* exists.
WritesNothing(cmd) == cmd \in {"cd", "true"}

C9_RedirectSideEffect ==
    (pc = "prompt" /\ history_vec # <<>>) =>
        LET st == ParseLine(LastLine).stages
            a  == abs_path(cwd, st[1].stdout.path)
        IN  (Len(st) = 1 /\ WritesNothing(st[1].cmd) /\ st[1].stdout.kind # "Inherit") =>
                /\ a \in DOMAIN fs
                /\ st[1].stdout.kind = "Truncate" => fs[a] = ""

SingleStage(line, cmd) ==
    LET st == ParseLine(line).stages IN Len(st) = 1 /\ st[1].cmd = cmd

\* C11: a single-stage line whose command is exit ends the control loop and
\* nothing is read or executed afterwards; the loop is never ended by the
\* acceptance of any other line; an exit stage of a pipeline writes nothing,
\* succeeds, and the loop reads the next line.
C11_ExitOnlyAlone ==
    [][/\ (Accepted /\ SingleStage(history_vec'[Len(history_vec')], "exit")) => pc' = "exited"
       /\ (Accepted /\ pc' = "exited") => SingleStage(history_vec'[Len(history_vec')], "exit")
       /\ pc # "exited"
       /\ \A k \in 1..Len(tasks) :
            (tasks[k].kind = "thread" /\ tasks[k].cmd = "exit" /\ tasks[k].st = "start"
                /\ Len(tasks') = Len(tasks) /\ tasks'[k].st = "write") =>
               /\ tasks'[k].outb = ""
               /\ out' = out /\ err' = err /\ fs' = fs
               /\ builtin_bytes("exit", tasks[k].args, tasks[k].hist, cwd).code = 0]_vars

C11_Witness ==
    /\ history_vec = <<"exit | true", "pwd">>
    /\ pc = "prompt"
    /\ out = "/h\n"
    /\ err = ""

\* C12: the message "<name>: command not found" of an unresolved command goes
\* to the stage's error destination: to the file of its 2> redirect when it
\* has one, to the inherited error stream otherwise.
NotFoundMessage(cmd) == cmd \o ": command not found\n"

C12_NotFoundToStageStderr ==
    (pc = "prompt" /\ history_vec # <<>>) =>
        LET st == ParseLine(LastLine).stages
            a  == abs_path(cwd, st[1].stderr.path)
        IN  (Len(st) = 1 /\ ~is_builtin(st[1].cmd) /\ ~find_executable_in_path(st[1].cmd).some) =>
                IF st[1].stderr.kind = "Inherit" THEN err = NotFoundMessage(st[1].cmd)
                ELSE /\ err = ""
                     /\ a \in DOMAIN fs
                     /\ fs[a] = NotFoundMessage(st[1].cmd)

\* C13: a cd stage of a pipeline whose target directory does not exist
\* reports a failure: a message on its error destination and a non-success
\* result; the working directory is unchanged either way.
C13_PipelineCdValidates ==
    (pc = "prompt" /\ history_vec # <<>>) =>
        LET st == ParseLine(LastLine).stages IN
        \A i \in 1..Len(st) :
            (Len(st) > 1 /\ st[i].cmd = "cd" /\ st[i].args # <<>>
                /\ st[i].stderr.kind = "Inherit"
                /\ abs_path(cwd, st[i].args[1]) \notin Dirs) =>
               /\ err # ""
               /\ builtin_bytes("cd", st[i].args, history_vec, cwd).code # 0

\* the step in which execute_pipeline's join or wait for stage k returns
Reaps(k) ==
    /\ InExecutor
    /\ Len(tasks') = Len(tasks)
    /\ ~tasks[k].done
    /\ tasks'[k].done

\* C14: once every stage is started, execute_pipeline waits for the last
\* stage before it waits for or joins any earlier one: an earlier stage is
\* reaped only after the last stage has been.
C14_LastStageReapedFirst ==
    [][\A k \in 1..Len(tasks) :
          (Reaps(k) /\ k < Len(stages)) =>
             (Len(tasks) = Len(stages) /\ tasks[Len(stages)].done)]_vars

\* C15: every builtin thread started for a stage has finished and been
\* joined when execute_pipeline returns, on every return path, so no thread
\* of a line is left to run while the next line is processed.
C15_ThreadsJoinedOnReturn ==
    /\ [](pc = "prompt" => detached = {})
    /\ [][(InExecutor /\ pc' = "prompt") =>
             \A k \in 1..Len(tasks) :
                tasks[k].kind = "thread" => (tasks[k].st = "done" /\ tasks[k].done)]_vars

\* whether task k has an open descriptor of the write end of pipe p
HoldsWriteEnd(k, p) ==
    \/ LiveThread(tasks[k]) /\ tasks[k].sink = p
    \/ LiveChild(tasks[k]) /\ (tasks[k].sink = p \/ tasks[k].inherits)

\* C16: while execute_pipeline joins or waits, the executor holds no end of
\* any pipe, and the write end of the pipe after stage p is held by stage p
\* alone.
C16_PipeEndDiscipline ==
    (pc \in {"join", "wait"} /\ Len(stages) > 1) =>
        /\ ~pipesOpen
        /\ \A p \in 1..Len(pipes) : \A k \in 1..Len(tasks) : HoldsWriteEnd(k, p) => k = p

(***************************************************************************)
(* Further claims about the completion engine (SpecComp).                  *)
(***************************************************************************)
\* the request a step of the session answers
NewRequest == compLog'[Len(compLog')]
StateReset == last_prefix' = None /\ armed_for_list' = FALSE

\* C17: a request for an ambiguous prefix (no common prefix beyond the typed
\* one) made while the state is armed for that prefix returns the full
\* candidate list and leaves the state at prefix=None, armed=false.
C17_ListingResetsState ==
    [][\A p \in CompLines :
          (AmbiguousRequest(NewRequest, p) /\ last_prefix = Some(p) /\ armed_for_list) =>
             (Lists(NewRequest, p) /\ StateReset)]_vars

\* C18: whatever the state before, a request at command position with a
\* non-empty prefix that has no candidate, one candidate, or several
\* candidates with a common prefix longer than the typed one leaves the state
\* at prefix=None, armed=false; it returns nothing, the candidate followed by a
\* space, or the common prefix alone.
C18_ResettingOutcomes ==
    [][LET e == NewRequest
           p == ReqWord(e)
           c == CandidateSet(p)
       IN  (ReqAtCommand(e) /\ p # "") =>
             /\ c = {} => (e.pairs = <<>> /\ StateReset)
             /\ Cardinality(c) = 1 =>
                  /\ e.pairs = <<[display |-> CHOOSE n \in c : TRUE,
                                  replacement |-> (CHOOSE n \in c : TRUE) \o " "]>>
                  /\ StateReset
             /\ (Cardinality(c) > 1 /\ ~Ambiguous(p)) =>
                  /\ Len(e.pairs) = 1
                  /\ e.pairs[1].display = e.pairs[1].replacement
                  /\ Len(e.pairs[1].replacement) > Len(p)
                  /\ CandidateSet(e.pairs[1].replacement) = c
                  /\ Ambiguous(e.pairs[1].replacement)
                  /\ StateReset]_vars

C18_Witness ==
    /\ Len(compLog) = 2
    /\ AmbiguousRequest(compLog[1], "e") /\ Bell(compLog[1])
    /\ ReqAtCommand(compLog[2]) /\ ReqWord(compLog[2]) = "p"
    /\ compLog[2].pairs = <<[display |-> "pwd", replacement |-> "pwd"]>>
    /\ last_prefix = None /\ ~armed_for_list

\* whether the cursor of a request is outside the first whitespace-delimited
\* token of its line: before it, or after a whitespace that follows it
NotInFirstToken(e) ==
    \/ \E i \in 1..e.pos : /\ is_whitespace(Ch(e.line, i))
                           /\ \E j \in 1..(i - 1) : ~is_whitespace(Ch(e.line, j))
    \/ /\ e.pos < Len(e.line)
       /\ \A i \in 1..(e.pos + 1) : is_whitespace(Ch(e.line, i))

\* C19: a request whose cursor is not within the first token of the line
\* returns no candidates and leaves last_prefix and armed_for_list as they were.
C19_OffCommandFrame ==
    [][NotInFirstToken(NewRequest) =>
          /\ NewRequest.pairs = <<>>
          /\ UNCHANGED <<last_prefix, armed_for_list>>]_vars

C19_Witness ==
    /\ Len(compLog) = 2
    /\ AmbiguousRequest(compLog[1], "e") /\ Bell(compLog[1])
    /\ compLog[2].line = "e x" /\ compLog[2].pos = 3
    /\ NotInFirstToken(compLog[2])
    /\ compLog[2].pairs = <<>>
    /\ last_prefix = Some("e") /\ armed_for_list

(***************************************************************************)
(* Claims about parse_command (SpecParse).                                 *)
(***************************************************************************)
\* the tokens from position i on, without each operator in operator position
\* and the token after it
RECURSIVE WithoutRedirects(_, _)
WithoutRedirects(tokens, i) ==
    IF i > Len(tokens) THEN <<>>
    ELSE IF tokens[i] \in RedirectOperators THEN WithoutRedirects(tokens, i + 2)
    ELSE <<tokens[i]>> \o WithoutRedirects(tokens, i + 1)

\* C20: for every stage parse_command accepts, the arguments are the tokens
\* after the command name with every recognized operator and the token that
\* follows it removed, in their original order.
C20_ArgsWithoutRedirects ==
    tkPc = "stages" =>
        \A i \in 1..Len(tkStages) :
            /\ tkStages[i].cmd = tkChunks.val[i][1]
            /\ tkStages[i].args = WithoutRedirects(tkChunks.val[i], 2)

C20_Witness ==
    /\ tkPc = "stages"
    /\ tkChunks.val = << <<"a", ">", "b", "b">> >>
    /\ tkStages[1].args = <<"b">>
    /\ tkStages[1].stdout = Truncate("b")

(***************************************************************************)
(* Further claims about the tokenizer, the parser and the session.         *)
(***************************************************************************)
\* C21: tokenize never emits an empty token; split_pipeline rejects with a
\* syntax error every token sequence with a pipe token first, last or right
\* after another pipe token; so every pipeline handed on is non-empty and
\* each of its stages has tokens and a non-empty command name.
C21_NoEmptyStage ==
    /\ tkPc \in {"tokens", "chunks", "stages", "syntax"} =>
          \A i \in 1..Len(tkTokens) : tkTokens[i] # ""
    /\ (tkPc \in {"chunks", "stages", "syntax"} /\ EmptyStage(tkTokens)) =>
          (tkPc = "syntax" /\ ~tkChunks.some /\ tkChunks.err = SyntaxPipe)
    /\ tkPc \in {"chunks", "stages"} =>
          /\ tkChunks.val # <<>>
          /\ \A i \in 1..Len(tkChunks.val) : tkChunks.val[i] # <<>>
    /\ tkPc = "stages" =>
          /\ tkStages # <<>>
          /\ \A i \in 1..Len(tkStages) : tkStages[i].cmd # ""

C21_Witness ==
    /\ tkLine = "cmd1 | | cmd2"
    /\ tkTokens = <<"cmd1", "|", "|", "cmd2">>
    /\ tkPc = "syntax"
    /\ ~tkChunks.some

\* C22: the history log changes only at the prompt, by the append of the
\* accepted non-empty line; every line the loop takes up is logged, also one
\* that is then rejected; a stage thread holds a snapshot of the log and
\* running it leaves the log alone.
C22_HistoryAppendOnly ==
    /\ [](\A k \in 1..Len(tasks) :
             tasks[k].kind = "thread" =>
                /\ Len(tasks[k].hist) <= Len(history_vec)
                /\ tasks[k].hist = SubSeq(history_vec, 1, Len(tasks[k].hist)))
    /\ [][/\ history_vec' # history_vec =>
               /\ pc = "prompt"
               /\ Accepted
               /\ SubSeq(history_vec', 1, Len(history_vec)) = history_vec
               /\ \E raw \in SessLines : /\ trim_end(raw) # ""
                                         /\ history_vec'[Len(history_vec')] = trim_end(raw)
          /\ (pc = "prompt" /\ detached' = detached /\ pc' # "exited") => Accepted]_vars

C22_Witness ==
    /\ history_vec = <<"echo hi >", "history | true">>
    /\ pc = "prompt"
    /\ out = ""
    /\ err = ""

(***************************************************************************)
(* Invariants of the completion state (SpecComp).                          *)
(***************************************************************************)
\* C23: whenever armed_for_list is true, last_prefix is present and non-empty
\* and is the prefix of the request that armed it.
C23_ArmedHasPrefix ==
    /\ [](armed_for_list => (last_prefix.some /\ last_prefix.val # ""))
    /\ [][(armed_for_list' /\ (~armed_for_list \/ last_prefix' # last_prefix)) =>
             /\ ReqAtCommand(NewRequest)
             /\ last_prefix' = Some(ReqWord(NewRequest))]_vars

C23_Witness ==
    /\ Len(compLog) = 2
    /\ AmbiguousRequest(compLog[1], "e") /\ Bell(compLog[1])
    /\ AmbiguousRequest(compLog[2], "pwd") /\ Bell(compLog[2])
    /\ armed_for_list
    /\ last_prefix = Some("pwd")

\* a request with the cursor at column 0
EmptyPrefixRequest(e) == e.pos = 0

\* C24: a request with an empty prefix returns no candidates and leaves the
\* state untouched, so after a bell for p and such a request the next request
\* for p lists the candidates.
C24_EmptyPrefixFrame ==
    /\ [](\A i \in 1..Len(compLog) - 2 : \A p \in CompLines :
             (AmbiguousRequest(compLog[i], p) /\ Bell(compLog[i])
                /\ EmptyPrefixRequest(compLog[i + 1])
                /\ AmbiguousRequest(compLog[i + 2], p)) => Lists(compLog[i + 2], p))
    /\ [][EmptyPrefixRequest(NewRequest) =>
             /\ NewRequest.pairs = <<>>
             /\ UNCHANGED <<last_prefix, armed_for_list>>]_vars

C24_Witness ==
    /\ Len(compLog) = 3
    /\ AmbiguousRequest(compLog[1], "e") /\ Bell(compLog[1])
    /\ EmptyPrefixRequest(compLog[2]) /\ compLog[2].pairs = <<>>
    /\ AmbiguousRequest(compLog[3], "e") /\ Lists(compLog[3], "e")
    /\ last_prefix = Some("e") /\ ~armed_for_list

====
